---------------------------- MODULE Spec2Model ----------------------------
(***************************************************************************)
(* A model of @decisively-io/types-interview: the run-time type guard      *)
(* isFileAttributeValue of core.ts, the format constants of controls.ts,   *)
(* and the Control / RenderableControl declarations of controls.ts read as *)
(* data (which members a union has, which fields a member declares, which  *)
(* family its nested controls belong to).                                  *)
(*                                                                         *)
(* The package has four revisions of controls.ts among its sources.  The   *)
(* two that declare both the design-time and the renderable family are     *)
(* modelled here:                                                          *)
(*    "part_004"  src/unnamed/part_004          (earlier)                  *)
(*    "part_002"  src/unnamed/part_002:81-640   (latest)                   *)
(* and, for the format constants only, "controls.ts" (src/src/controls.ts).*)
(* The declarations of core.ts (src/unnamed/part_000, and the older         *)
(* src/unnamed/part_002:1-80) and some of controls.ts are also read as      *)
(* types, with the values a producer writes for them and their JSON text.   *)
(***************************************************************************)
EXTENDS Integers, Sequences, FiniteSets, TLC

VARIABLES
    rev,      \* the revision of controls.ts that is loaded
    pc,       \* how many of the module's five format constants are initialised
    exports,  \* the module's exported constants: name -> string, or TDZ
    v,        \* the argument of the pending / last call of isFileAttributeValue
    ret,      \* what that call returned: "none" before it returns
    ctl,      \* the control value a client has authored, or NoControl
    doc,      \* the value a producer has written for a declared type, or NoDoc
    wire,     \* the JSON text of a written control in flight, or NoText
    back      \* the value decoded from that text, or NoArg

vars == <<rev, pc, exports, v, ret, ctl, doc, wire, back>>

---------------------------------------------------------------------------
(* Bounds of the model *)

\* longest array handed to isFileAttributeValue as `value`, or as entity rows
MaxLen == 2
\* deepest nesting of controls inside an authored control
MaxDepth == 2
\* most optional / undeclared fields set on an authored control (all levels)
MaxExtra == 1
\* most nodes of a step tree, or of a condition tree, that a producer writes
MaxNodes == 3

---------------------------------------------------------------------------
(* JavaScript values.  A string is the sequence of its characters. *)

Undefined == [k |-> "undefined"]
Null == [k |-> "null"]
Bool(b) == [k |-> "boolean", b |-> b]
Num(n) == [k |-> "number", n |-> n]
Str(s) == [k |-> "string", s |-> s]
Arr(items) == [k |-> "array", items |-> items]
Obj(props) == [k |-> "object", props |-> props]
\* NaN: a number that is no finite number
NaN == [k |-> "number", nan |-> TRUE]

\* no call is pending
NoArg == [k |-> "none"]

\* typeof x
TypeOf(x) ==
    CASE x.k = "undefined" -> "undefined"
      [] x.k = "boolean" -> "boolean"
      [] x.k = "number" -> "number"
      [] x.k = "string" -> "string"
      [] OTHER -> "object"

\* Array.isArray(x)
IsArray(x) == x.k = "array"

\* o.p for a non-null o of typeof "object": an own property of a plain object,
\* undefined otherwise (an array has no property named type or value)
GetProp(o, p) ==
    IF o.k = "object" /\ p \in DOMAIN o.props THEN o.props[p] ELSE Undefined

\* "data:id="
DATA_ID_PREFIX == <<"d", "a", "t", "a", ":", "i", "d", "=">>
\* "file"
FILE_TAG == <<"f", "i", "l", "e">>

\* String.prototype.indexOf: the 0-based position of the first occurrence of t
\* in s, or -1
StringIndexOf(s, t) ==
    LET hits == {i \in 0..(Len(s) - Len(t)) : SubSeq(s, i + 1, i + Len(t)) = t}
    IN  IF hits = {} THEN -1 ELSE CHOOSE i \in hits : \A j \in hits : i <= j

\* Array.prototype.indexOf: the 0-based position of the first item strictly
\* equal to x, or -1
ArrayIndexOf(items, x) ==
    LET hits == {i \in 0..(Len(items) - 1) : items[i + 1] = x}
    IN  IF hits = {} THEN -1 ELSE CHOOSE i \in hits : \A j \in hits : i <= j

\* it.indexOf(t) for any value it: a string and an array have the method; on
\* null and undefined the property read throws, on every other value indexOf
\* is undefined and the call throws
IndexOfCall(it, t) ==
    CASE it.k = "string" -> [thrown |-> FALSE, n |-> StringIndexOf(it.s, t)]
      [] it.k = "array" -> [thrown |-> FALSE, n |-> ArrayIndexOf(it.items, Str(t))]
      [] OTHER -> [thrown |-> TRUE, n |-> -1]

\* a faulty variant of RejectsEntry that looks for the prefix anywhere
RejectsEntry_Anywhere(it) ==
    LET r == IndexOfCall(it, DATA_ID_PREFIX)
    IN  IF r.thrown THEN "TypeError" ELSE IF r.n < 0 THEN "true" ELSE "false"

\* the callback of line 67: (it) => it.indexOf("data:id=") !== 0
RejectsEntry(it) ==
    LET r == IndexOfCall(it, DATA_ID_PREFIX)
    IN  IF r.thrown THEN "TypeError" ELSE IF r.n # 0 THEN "true" ELSE "false"

\* Array.prototype.some from index i on: the callback runs on the items in
\* order, stops at the first that returns true, and a throw propagates
RECURSIVE SomeFrom(_, _)
SomeFrom(items, i) ==
    IF i > Len(items) THEN "false"
    ELSE LET r == RejectsEntry(items[i])
         IN  IF r = "false" THEN SomeFrom(items, i + 1) ELSE r

\* a faulty variant of SomeRejected that looks at the first entry only
SomeRejected_FirstOnly(items) ==
    IF items = <<>> THEN "false" ELSE RejectsEntry(items[1])

\* typed.value.some((it) => it.indexOf("data:id=") !== 0)
SomeRejected(items) == SomeFrom(items, 1)

\* a faulty variant of TagOrValueWrong that does not look at the tag
TagOrValueWrong_NoTag(typed) ==
    IsArray(GetProp(typed, "value")) = FALSE

\* a faulty variant of TagOrValueWrong that also turns down an object with a
\* property other than type and value
TagOrValueWrong_OwnKeys(typed) ==
    \/ GetProp(typed, "type") # Str(FILE_TAG)
    \/ IsArray(GetProp(typed, "value")) = FALSE
    \/ DOMAIN typed.props # {"type", "value"}

\* line 66: typed.type !== "file" || Array.isArray(typed.value) === false
TagOrValueWrong(typed) ==
    \/ GetProp(typed, "type") # Str(FILE_TAG)
    \/ IsArray(GetProp(typed, "value")) = FALSE

\* isFileAttributeValue(x): "true", "false", or "TypeError" when it throws
isFileAttributeValue(x) ==
    IF TypeOf(x) # "object" \/ x = Null THEN "false"
    ELSE IF TagOrValueWrong(x) THEN "false"
    ELSE LET s == SomeRejected(GetProp(x, "value").items)
         IN  IF s = "TypeError" THEN "TypeError"
             ELSE IF s = "true" THEN "false" ELSE "true"

---------------------------------------------------------------------------
(* The arguments a client passes to isFileAttributeValue *)

S_bare == DATA_ID_PREFIX
\* "data:id=abc;base64,x"
S_full ==
    DATA_ID_PREFIX \o <<"a", "b", "c", ";", "b", "a", "s", "e", "6", "4", ",", "x">>
S_bogus == <<"b", "o", "g", "u", "s">>
\* the prefix after position 0
S_inner == <<"x">> \o DATA_ID_PREFIX
\* the prefix in another letter case
S_upper == <<"D", "A", "T", "A", ":", "I", "D", "=", "a">>
\* the prefix cut short
S_short == <<"d", "a", "t", "a", ":", "i", "d">>
S_empty == <<>>
S_text == <<"t", "e", "x", "t">>

StringPool == {S_bare, S_full, S_bogus, S_inner, S_upper, S_short, S_empty}

\* entries that are not strings
NonStringEntries ==
    { Num(5), Null, Undefined, Bool(TRUE),
      Arr(<<Str(S_bare)>>), Arr(<<Str(S_bogus), Str(S_bare)>>),
      Obj([name |-> Str(S_bare)]) }

EntryPool == {Str(s) : s \in StringPool} \cup NonStringEntries

\* the arrays of at most n elements of S
ArraysOf(S, n) == UNION {[1..m -> S] : m \in 0..n}

\* a property that is not set
Absent == [k |-> "absent"]

\* the own properties of an object literal { type: t, value: val, name: x }
Props(t, val, x) ==
    LET dom == (IF t = Absent THEN {} ELSE {"type"})
                 \cup (IF val = Absent THEN {} ELSE {"value"})
                 \cup (IF x = Absent THEN {} ELSE {"name"})
    IN  [p \in dom |-> CASE p = "type" -> t [] p = "value" -> val [] OTHER -> x]

TypePool == {Str(FILE_TAG), Str(S_text), Null, Absent}

ValuePool ==
    {Arr(a) : a \in ArraysOf(EntryPool, MaxLen)}
      \cup {Absent, Null, Str(S_bare), Obj([length |-> Num(0)])}

ObjectInputs ==
    {Obj(Props(t, val, x)) : t \in TypePool, val \in ValuePool,
                             x \in {Absent, Str(S_bogus)}}

\* rows of a nested entity: Record<string, AttributeValue>
RowPool ==
    { Obj([name |-> Str(S_bogus)]),
      Obj([type |-> Str(FILE_TAG)]),
      Obj([doc |-> Obj([type |-> Str(FILE_TAG), value |-> Arr(<<Str(S_bare)>>)])]),
      Obj([kids |-> Arr(<<Obj([name |-> Str(S_bare)])>>)]) }

EntityRowsInputs == {Arr(a) : a \in ArraysOf(RowPool, MaxLen)}

PrimitiveInputs ==
    {Undefined, Null, Bool(TRUE), Bool(FALSE), Num(0), Num(5)}
      \cup {Str(s) : s \in StringPool \cup {FILE_TAG}}

Inputs == ObjectInputs \cup EntityRowsInputs \cup PrimitiveInputs

---------------------------------------------------------------------------
(* The format constants of controls.ts and the evaluation of the module *)

Revisions == {"controls.ts", "part_004", "part_002"}

\* "yyyy-MM-dd"
DATE_FORMAT == <<"y", "y", "y", "y", "-", "M", "M", "-", "d", "d">>
\* "HH:mm:ss"
TIME_FORMAT_24 == <<"H", "H", ":", "m", "m", ":", "s", "s">>
\* "h:mm:ss a"
TIME_FORMAT_12 == <<"h", ":", "m", "m", ":", "s", "s", " ", "a">>

\* a faulty variant of DateTimeTemplate that leaves the space out
DateTimeTemplate_NoSpace(d, t) == d \o t

\* the template literal `${d} ${t}`
DateTimeTemplate(d, t) == d \o <<" ">> \o t

\* the module's const declarations in the order they are evaluated
ConstOrder ==
    <<"DATE_FORMAT", "TIME_FORMAT_24", "TIME_FORMAT_12",
      "DATE_TIME_FORMAT_24", "DATE_TIME_FORMAT_12">>

\* a binding that is declared and not yet initialised
TDZ == [init |-> FALSE, s |-> <<>>]
Initialised(s) == [init |-> TRUE, s |-> s]

\* a faulty variant of FormatLiterals: the oldest file pads the hour
FormatLiterals_Drifted ==
    [r \in Revisions |->
        [ DATE_FORMAT |-> DATE_FORMAT,
          TIME_FORMAT_24 |-> TIME_FORMAT_24,
          TIME_FORMAT_12 |->
              IF r = "controls.ts" THEN <<"h">> \o TIME_FORMAT_12
              ELSE TIME_FORMAT_12 ]]

\* the string literals that each revision initialises its constants with:
\* controls.ts:83,118,119; part_004:110,150,151; part_002:215,256,257
FormatLiterals ==
    [r \in Revisions |->
        CASE r = "controls.ts" ->
                [ DATE_FORMAT |->
                      <<"y", "y", "y", "y", "-", "M", "M", "-", "d", "d">>,
                  TIME_FORMAT_24 |-> <<"H", "H", ":", "m", "m", ":", "s", "s">>,
                  TIME_FORMAT_12 |->
                      <<"h", ":", "m", "m", ":", "s", "s", " ", "a">> ]
          [] r = "part_004" ->
                [ DATE_FORMAT |->
                      <<"y", "y", "y", "y", "-", "M", "M", "-", "d", "d">>,
                  TIME_FORMAT_24 |-> <<"H", "H", ":", "m", "m", ":", "s", "s">>,
                  TIME_FORMAT_12 |->
                      <<"h", ":", "m", "m", ":", "s", "s", " ", "a">> ]
          [] r = "part_002" ->
                [ DATE_FORMAT |-> DATE_FORMAT,
                  TIME_FORMAT_24 |-> TIME_FORMAT_24,
                  TIME_FORMAT_12 |-> TIME_FORMAT_12 ] ]

\* the initialiser of the const called name in the revision r, evaluated with
\* the bindings ex; the two templates are the same in every revision
\* (controls.ts:158-159, part_004:195-196, part_002:302-303)
Initialiser(r, name, ex) ==
    CASE name = "DATE_FORMAT" -> FormatLiterals[r].DATE_FORMAT
      [] name = "TIME_FORMAT_24" -> FormatLiterals[r].TIME_FORMAT_24
      [] name = "TIME_FORMAT_12" -> FormatLiterals[r].TIME_FORMAT_12
      [] name = "DATE_TIME_FORMAT_24" ->
            DateTimeTemplate(ex["DATE_FORMAT"].s, ex["TIME_FORMAT_24"].s)
      [] name = "DATE_TIME_FORMAT_12" ->
            DateTimeTemplate(ex["DATE_FORMAT"].s, ex["TIME_FORMAT_12"].s)

Loaded == pc = Len(ConstOrder)

---------------------------------------------------------------------------
(* The control declarations of controls.ts, read as data.  An interface is   *)
(* [type: its tag, req: its required fields, opt: its optional fields,      *)
(* nest: its fields that hold controls, each with the family of its         *)
(* elements].  Inherited fields (BaseControl, a generic base) are included. *)

Latest == "part_002"
Earlier == "part_004"

\* the revisions whose declarations are read here
DeclRevisions == {Earlier, Latest}

Range(f) == {f[x] : x \in DOMAIN f}

\* the fields S, which only the latest revision declares
OnlyLatest(r, S) == IF r = Latest THEN S ELSE {}

NoNest == {}
Nest(f, C) == [field |-> f, of |-> C]

\* interface BaseControl { id; type; attribute?; version? }
BaseControl ==
    [req |-> {"id", "type"}, opt |-> {"attribute", "version"}]

BooleanControl(r) ==
    [ type |-> "boolean",
      req |-> BaseControl.req \cup {"attribute"},
      opt |-> BaseControl.opt \cup OnlyLatest(r, {"labelDisplay"})
                \cup {"label", "labelLength", "required", "disabled", "default",
                      "value", "showExplanation"},
      nest |-> NoNest ]

CurrencyControl(r) ==
    [ type |-> "currency",
      req |-> BaseControl.req \cup {"attribute"},
      opt |-> BaseControl.opt \cup OnlyLatest(r, {"labelDisplay"})
                \cup {"label", "labelLength", "required", "disabled", "default",
                      "value", "symbol", "min", "max", "showExplanation"},
      nest |-> NoNest ]

DateControl(r) ==
    [ type |-> "date",
      req |-> BaseControl.req \cup {"attribute"},
      opt |-> BaseControl.opt \cup OnlyLatest(r, {"labelDisplay"})
                \cup {"label", "labelLength", "required", "disabled",
                      "allowManual", "value", "default", "min", "max",
                      "showExplanation"},
      nest |-> NoNest ]

TimeControl(r) ==
    [ type |-> "time",
      req |-> BaseControl.req \cup {"attribute"},
      opt |-> BaseControl.opt \cup OnlyLatest(r, {"labelDisplay"})
                \cup {"label", "labelLength", "required", "disabled", "value",
                      "default", "min", "max", "amPmFormat", "minutes_increment",
                      "allowSeconds", "showExplanation"},
      nest |-> NoNest ]

DateTimeControl(r) ==
    [ type |-> "datetime",
      req |-> BaseControl.req \cup {"attribute"},
      opt |-> BaseControl.opt \cup OnlyLatest(r, {"labelDisplay"})
                \cup {"label", "labelLength", "required", "disabled", "value",
                      "default", "date_min", "date_max", "time_min", "time_max",
                      "amPmFormat", "minutes_increment", "showExplanation"},
      nest |-> NoNest ]

OptionsControl(r) ==
    [ type |-> "options",
      req |-> BaseControl.req \cup {"attribute"},
      opt |-> BaseControl.opt \cup OnlyLatest(r, {"labelDisplay"})
                \cup {"asRadio", "label", "labelLength", "required", "disabled",
                      "value", "default", "options", "allow_other", "enum_id",
                      "showExplanation"},
      nest |-> NoNest ]

FileControl(r) ==
    [ type |-> "file",
      req |-> BaseControl.req \cup {"attribute"},
      opt |-> BaseControl.opt \cup OnlyLatest(r, {"labelDisplay"})
                \cup {"label", "labelLength", "required", "max", "file_type",
                      "max_size", "showExplanation"},
      nest |-> NoNest ]

ImageControl(r) ==
    [ type |-> "image",
      req |-> BaseControl.req \cup {"data"},
      opt |-> BaseControl.opt,
      nest |-> NoNest ]

\* template?: Control[] in both families: the interface is not generic
NumberOfInstancesControl(r) ==
    [ type |-> "number_of_instances",
      req |-> BaseControl.req \cup {"entity"},
      opt |-> BaseControl.opt \cup OnlyLatest(r, {"labelDisplay"})
                \cup {"label", "labelLength", "required", "default", "disabled",
                      "value", "template", "min", "max"},
      nest |-> {Nest("template", "Control")} ]

TextControl(r) ==
    [ type |-> "text",
      req |-> BaseControl.req \cup {"attribute"},
      opt |-> BaseControl.opt \cup OnlyLatest(r, {"labelDisplay"})
                \cup {"label", "labelLength", "required", "disabled", "default",
                      "value", "max", "variation", "multi", "showExplanation"},
      nest |-> NoNest ]

TypographyControl(r) ==
    [ type |-> "typography",
      req |-> BaseControl.req \cup {"text", "style"},
      opt |-> BaseControl.opt \cup {"emoji"}
                \cup OnlyLatest(r, {"columnHeading", "columnWidth"}),
      nest |-> NoNest ]

\* a faulty variant of EntityControl that declares the hydrated rows
EntityControl_WithInstances(r, C) ==
    [ type |-> "entity",
      req |-> BaseControl.req \cup {"entity", "template", "instances"},
      opt |-> BaseControl.opt \cup OnlyLatest(r, {"labelDisplay"})
                \cup {"label", "labelLength", "display", "value", "min", "max",
                      "showExplanation", "entityId"},
      nest |-> {Nest("template", C), Nest("instances", C)} ]

\* interface EntityControl<C = Control>
EntityControl(r, C) ==
    [ type |-> "entity",
      req |-> BaseControl.req \cup {"entity", "template"},
      opt |-> BaseControl.opt \cup OnlyLatest(r, {"labelDisplay"})
                \cup {"label", "labelLength", "display", "value", "min", "max",
                      "showExplanation", "entityId"},
      nest |-> {Nest("template", C)} ]

\* a faulty variant of RepeatingContainerControl with the tag of EntityControl
RepeatingContainerControl_EntityTag(r, C) ==
    [ type |-> "entity",
      req |-> BaseControl.req \cup {"entity", "controls"},
      opt |-> BaseControl.opt \cup {"display", "filter", "sort"}
                \cup OnlyLatest(r, {"showBorders", "showHeaders", "isFirst", "isLast"}),
      nest |-> {Nest("controls", IF r = Latest THEN C ELSE "Control")} ]

\* interface RepeatingContainerControl<C = Control> in the latest revision; the
\* earlier one is not generic, its controls are Control[], and it declares
\* neither showBorders, showHeaders, isFirst nor isLast
RepeatingContainerControl(r, C) ==
    [ type |-> "repeating_container",
      req |-> BaseControl.req \cup {"entity", "controls"},
      opt |-> BaseControl.opt \cup {"display", "filter", "sort"}
                \cup OnlyLatest(r, {"showBorders", "showHeaders", "isFirst", "isLast"}),
      nest |-> {Nest("controls", IF r = Latest THEN C ELSE "Control")} ]

\* interface CertaintyContainerControl<C = Control>
CertaintyContainerControl(r, C) ==
    [ type |-> "certainty_container",
      req |-> BaseControl.req \cup {"attribute", "certain", "uncertain"},
      opt |-> (BaseControl.opt \ {"attribute"})
                \cup OnlyLatest(r, {"columnHeading", "columnWidth"}),
      nest |-> {Nest("certain", C), Nest("uncertain", C)} ]

\* interface SwitchContainerControl<C = Control>
SwitchContainerControl(r, C) ==
    [ type |-> "switch_container",
      req |-> BaseControl.req \cup {"outcome_true", "outcome_false"},
      opt |-> BaseControl.opt \cup {"condition", "kind"}
                \cup OnlyLatest(r, {"columnHeading", "columnWidth"}),
      nest |-> {Nest("outcome_true", C), Nest("outcome_false", C)} ]

\* d with the required fields S added
WithRequired(d, S) == [d EXCEPT !.req = @ \cup S]
\* d with the optional fields S added
WithOptional(d, S) == [d EXCEPT !.opt = @ \cup S]
\* d with the nested fields N added
WithNest(d, N) == [d EXCEPT !.nest = @ \cup N]

\* latest: interface RenderableEntityControl extends
\* EntityControl<RenderableControl> { instances: EntityControlInstance[] },
\* where EntityControlInstance is { id; controls: RenderableControl[] }: the
\* nested field "instances" stands for the controls of its instances.
\* earlier: type RenderableEntityControl = EntityControl<RenderableControl>
RenderableEntityControl(r) ==
    IF r = Latest
    THEN WithNest(WithRequired(EntityControl(r, "RenderableControl"), {"instances"}),
                  {Nest("instances", "RenderableControl")})
    ELSE EntityControl(r, "RenderableControl")

RenderableSwitchContainerControl(r) ==
    WithOptional(SwitchContainerControl(r, "RenderableControl"), {"branch"})

RenderableCertaintyContainerControl(r) ==
    WithOptional(CertaintyContainerControl(r, "RenderableControl"), {"branch"})

\* latest revision only
RenderableRepeatingContainerControl(r) ==
    RepeatingContainerControl(r, "RenderableControl")

\* the interface that a member name of a union stands for
Interface(r, name) ==
    CASE name = "BooleanControl" -> BooleanControl(r)
      [] name = "CurrencyControl" -> CurrencyControl(r)
      [] name = "DateControl" -> DateControl(r)
      [] name = "TimeControl" -> TimeControl(r)
      [] name = "DateTimeControl" -> DateTimeControl(r)
      [] name = "OptionsControl" -> OptionsControl(r)
      [] name = "FileControl" -> FileControl(r)
      [] name = "ImageControl" -> ImageControl(r)
      [] name = "NumberOfInstancesControl" -> NumberOfInstancesControl(r)
      [] name = "TextControl" -> TextControl(r)
      [] name = "TypographyControl" -> TypographyControl(r)
      [] name = "EntityControl" -> EntityControl(r, "Control")
      [] name = "RepeatingContainerControl" -> RepeatingContainerControl(r, "Control")
      [] name = "CertaintyContainerControl" -> CertaintyContainerControl(r, "Control")
      [] name = "SwitchContainerControl" -> SwitchContainerControl(r, "Control")
      [] name = "RenderableEntityControl" -> RenderableEntityControl(r)
      [] name = "RenderableSwitchContainerControl" ->
            RenderableSwitchContainerControl(r)
      [] name = "RenderableCertaintyContainerControl" ->
            RenderableCertaintyContainerControl(r)
      [] name = "RenderableRepeatingContainerControl" ->
            RenderableRepeatingContainerControl(r)

\* the members that both unions list first
LeafMembers ==
    <<"BooleanControl", "CurrencyControl", "DateControl", "TimeControl",
      "DateTimeControl", "OptionsControl", "FileControl", "ImageControl",
      "NumberOfInstancesControl", "TextControl", "TypographyControl">>

\* a faulty variant of Control that leaves the last member out
Control_WithoutSwitch(r) ==
    LeafMembers \o <<"EntityControl", "RepeatingContainerControl",
                     "CertaintyContainerControl">>

\* export type Control = BooleanControl | ... | SwitchContainerControl
Control(r) ==
    LeafMembers \o <<"EntityControl", "RepeatingContainerControl",
                     "CertaintyContainerControl", "SwitchContainerControl">>

\* export type RenderableControl = (BooleanControl | ... ) & { loading?;
\* dynamicAttributes? }: the members of the union
RenderableControl(r) ==
    LeafMembers \o <<"RenderableEntityControl", "RenderableSwitchContainerControl",
                     "RenderableCertaintyContainerControl">>
      \o (IF r = Latest THEN <<"RenderableRepeatingContainerControl">> ELSE <<>>)

\* ... & { loading?: boolean; dynamicAttributes?: string[] }
RenderableIntersection == {"loading", "dynamicAttributes"}

Families == {"Control", "RenderableControl"}

\* the member names of a family's union
Members(r, fam) == IF fam = "Control" THEN Control(r) ELSE RenderableControl(r)

\* the shape of member name of family fam
Shape(r, fam, name) ==
    IF fam = "Control" THEN Interface(r, name)
    ELSE WithOptional(Interface(r, name), RenderableIntersection)

\* the declarations as tables, one per revision: the members of each family
\* and the shape of each member
MembersOf == [r \in DeclRevisions |-> [fam \in Families |-> Members(r, fam)]]
ShapeOf ==
    [r \in DeclRevisions |->
        [fam \in Families |->
            [name \in Range(Members(r, fam)) |-> Shape(r, fam, name)]]]

\* the type tags of a family's members
TypesOf ==
    [r \in DeclRevisions |->
        [fam \in Families |->
            {ShapeOf[r][fam][name].type : name \in Range(MembersOf[r][fam])}]]

\* export type ControlType = Control["type"]
ControlType(r) == TypesOf[r]["Control"]

\* export type RenderableControlType = RenderableControl["type"]
RenderableControlType(r) == TypesOf[r]["RenderableControl"]

---------------------------------------------------------------------------
(* Control values.  A control value is [type: its tag, fields: the names of *)
(* the fields it sets, kids: for each field it sets that holds controls,    *)
(* the sequence of those controls].  The values of its other fields are not *)
(* modelled.  A value is a member of a family when it is assignable to a    *)
(* member of the union as an object literal is: the tag is the member's,    *)
(* every required field is set, no undeclared field is set, and the nested  *)
(* controls are members of the family the member declares for them.         *)

NoControl == [type |-> "none", fields |-> {}, kids |-> <<>>]

\* the fields that hold controls, in either family
NestFields ==
    {"template", "instances", "controls", "certain", "uncertain",
     "outcome_true", "outcome_false"}

\* the controls directly inside c
Children(c) == UNION {Range(c.kids[f]) : f \in DOMAIN c.kids}

\* c and the controls nested in c at any depth
RECURSIVE Descendants(_)
Descendants(c) == {c} \cup UNION {Descendants(k) : k \in Children(c)}

\* the controls nested in c at any depth, c excluded
Nested(c) == UNION {Descendants(k) : k \in Children(c)}

RECURSIVE Depth(_)
Depth(c) ==
    IF Children(c) = {} THEN 1
    ELSE 1 + (CHOOSE d \in {Depth(k) : k \in Children(c)} :
                \A e \in {Depth(k) : k \in Children(c)} : e <= d)

RECURSIVE Conforms(_, _, _)
\* whether c is assignable to the member name of the family fam
MatchesMember(r, fam, name, c) ==
    LET d == ShapeOf[r][fam][name]
    IN  /\ c.type = d.type
        /\ d.req \subseteq c.fields
        /\ c.fields \subseteq d.req \cup d.opt
        /\ \A n \in d.nest :
              n.field \in c.fields =>
                 \A j \in DOMAIN c.kids[n.field] :
                    Conforms(r, n.of, c.kids[n.field][j])

\* whether c is a member of the family fam: assignable to a member of its union
Conforms(r, fam, c) ==
    \E i \in DOMAIN MembersOf[r][fam] :
        MatchesMember(r, fam, MembersOf[r][fam][i], c)

IsControl(c) == Conforms(rev, "Control", c)
IsRenderableControl(c) == Conforms(rev, "RenderableControl", c)

---------------------------------------------------------------------------
(* What a client authors *)

\* the tags a client writes: those of the latest Control union, and one
\* that no revision knows
UnknownTag == "slider"
TagPool ==
    {"boolean", "currency", "date", "time", "datetime", "options", "file",
     "image", "number_of_instances", "text", "typography", "entity",
     "repeating_container", "certainty_container", "switch_container",
     UnknownTag}

\* the optional and run-time fields a client may set on top
ExtraFields ==
    {"branch", "loading", "dynamicAttributes", "isFirst", "isLast", "enum_id"}

\* the container tags and the field each nests controls in
Nestings ==
    { <<"entity", "template">>, <<"entity", "instances">>,
      <<"repeating_container", "controls">>,
      <<"certainty_container", "certain">>, <<"certainty_container", "uncertain">>,
      <<"switch_container", "outcome_true">>, <<"switch_container", "outcome_false">>,
      <<"number_of_instances", "template">> }

\* the required fields of the design-time member with the tag, those of
\* BaseControl for a tag that has none
MinimalFields(r, tag) ==
    LET ms == {n \in Range(MembersOf[r]["Control"]) :
                 ShapeOf[r]["Control"][n].type = tag}
    IN  IF ms = {} THEN BaseControl.req
        ELSE ShapeOf[r]["Control"][CHOOSE n \in ms : TRUE].req

\* a control with the fields S, whose field f (if any) holds the controls ks
\* and whose other nested fields are empty arrays
MakeControl(tag, S, f, ks) ==
    [ type |-> tag, fields |-> S,
      kids |-> [g \in S \cap NestFields |-> IF g = f THEN ks ELSE <<>>] ]

\* how many of the ExtraFields are set in c, at all depths
RECURSIVE Extras(_, _)
ExtrasIn(c) == Extras(Descendants(c), 0)
Extras(cs, n) ==
    IF cs = {} THEN n
    ELSE LET c == CHOOSE x \in cs : TRUE
         IN  Extras(cs \ {c}, n + Cardinality(c.fields \cap ExtraFields))

---------------------------------------------------------------------------
(* The declarations of core.ts and the condition declarations of           *)
(* controls.ts as types, and assignability of a JavaScript value to a type *)
(* as tsc decides it for an object literal under strictNullChecks.         *)

\* string, number, boolean, null, undefined, any
Primitive ==
    [k \in {"string", "number", "boolean", "null", "undefined", "any"} |->
        [t |-> k]]
\* a literal type: "global", true
Lit(x) == [t |-> "literal", v |-> x]
\* A | B | ...
Union(ts) == [t |-> "union", of |-> ts]
\* A & B
Intersection(ts) == [t |-> "intersection", of |-> ts]
\* E[]
ArrayT(e) == [t |-> "array", of |-> e]
\* Record<string, V>
RecordT(val) == [t |-> "record", of |-> val]
\* an interface: its required and its optional properties, name -> type
ObjectT(req, opt) == [t |-> "object", req |-> req, opt |-> opt]
\* a control of a family: an object with a type that, when its type is the
\* tag of a member whose fields are typed here, is assignable to that member;
\* the members are told apart in full by Conforms on control values
ControlT(fam) == [t |-> "control", fam |-> fam]
\* a declared type, by name
Ref(name) == [t |-> "ref", name |-> name]
\* no properties
NoProps == <<>>

\* no value has been written
NoDoc == [decl |-> "none", val |-> Undefined]

\* the strings of the declarations, and some that a producer writes (xor: no
\* condition type; one, a: identifiers; path: a parent path)
Text ==
    [ global |-> <<"g", "l", "o", "b", "a", "l">>,
      person |-> <<"p", "e", "r", "s", "o", "n">>,
      value |-> <<"v", "a", "l", "u", "e">>,
      attribute |-> <<"a", "t", "t", "r", "i", "b", "u", "t", "e">>,
      equals |-> <<"e", "q", "u", "a", "l", "s">>,
      not_equals |-> <<"n", "o", "t", "-", "e", "q", "u", "a", "l", "s">>,
      and |-> <<"a", "n", "d">>,
      or |-> <<"o", "r">>,
      less_than |-> <<"l", "e", "s", "s", "-", "t", "h", "a", "n">>,
      less_than_equals |->
          <<"l", "e", "s", "s", "-", "t", "h", "a", "n", "-", "e",
           "q", "u", "a", "l", "s">>,
      greater_than |->
          <<"g", "r", "e", "a", "t", "e", "r", "-", "t", "h", "a",
           "n">>,
      greater_than_equals |->
          <<"g", "r", "e", "a", "t", "e", "r", "-", "t", "h", "a",
           "n", "-", "e", "q", "u", "a", "l", "s">>,
      xor |-> <<"x", "o", "r">>,
      boolean |-> <<"b", "o", "o", "l", "e", "a", "n">>,
      number_of_instances |->
          <<"n", "u", "m", "b", "e", "r", "_", "o", "f", "_", "i",
           "n", "s", "t", "a", "n", "c", "e", "s">>,
      automatic |-> <<"a", "u", "t", "o", "m", "a", "t", "i", "c">>,
      separate |-> <<"s", "e", "p", "a", "r", "a", "t", "e">>,
      inline |-> <<"i", "n", "l", "i", "n", "e">>,
      one |-> <<"1">>,
      a |-> <<"a">>,
      path |-> <<"f", "a", "m", "i", "l", "y", "/", "0">>,
      api |-> <<"a", "p", "i">>,
      options |-> <<"o", "p", "t", "i", "o", "n", "s">>,
      radio |-> <<"r", "a", "d", "i", "o">>,
      menu |-> <<"m", "e", "n", "u">>,
      entity |-> <<"e", "n", "t", "i", "t", "y">>,
      repeating_container |->
          <<"r", "e", "p", "e", "a", "t", "i", "n", "g", "_",
            "c", "o", "n", "t", "a", "i", "n", "e", "r">>,
      horizontal |-> <<"h", "o", "r", "i", "z", "o", "n", "t", "a", "l">>,
      vertical |-> <<"v", "e", "r", "t", "i", "c", "a", "l">>,
      list |-> <<"l", "i", "s", "t">>,
      table |-> <<"t", "a", "b", "l", "e">>,
      pet |-> <<"p", "e", "t">> ]

\* export type FileAttributeValue = { type: "file"; value: string[] }
FileAttributeValue ==
    ObjectT([type |-> Lit(Str(FILE_TAG)), value |-> ArrayT(Primitive.string)],
            NoProps)

\* export type AttributeValue = string | number | boolean
\*    | FileAttributeValue | Record<string, AttributeValue>[]
AttributeValue ==
    Union(<<Primitive.string, Primitive.number, Primitive.boolean,
            Ref("FileAttributeValue"),
            ArrayT(RecordT(Ref("AttributeValue")))>>)

\* export type AttributeValues = Record<AttributeId, AttributeValue>
AttributeValues == RecordT(Ref("AttributeValue"))

\* a faulty variant of Parent whose property is optional
Parent_Optional ==
    ObjectT(NoProps,
            [p \in {"@parent"} |->
                Union(<<Primitive.string, Primitive.undefined>>)])

\* export interface Parent { "@parent": string | undefined }
Parent ==
    ObjectT([p \in {"@parent"} |->
                Union(<<Primitive.string, Primitive.undefined>>)],
            NoProps)

\* export type ResponseData = AttributeValues & Parent
ResponseData == Intersection(<<Ref("AttributeValues"), Ref("Parent")>>)

\* export interface EntityInstance { "@id": string }
EntityInstance == ObjectT([p \in {"@id"} |-> Primitive.string], NoProps)

\* export interface Context { entity: string; id?: string; parent?: string }
Context ==
    ObjectT([entity |-> Primitive.string],
            [id |-> Primitive.string, parent |-> Primitive.string])

\* export interface Step
Step ==
    ObjectT([ id |-> Primitive.string, title |-> Primitive.string,
              context |-> Ref("Context"),
              current |-> Primitive.boolean, complete |-> Primitive.boolean,
              visited |-> Primitive.boolean, skipped |-> Primitive.boolean,
              visitable |-> Primitive.boolean ],
            [ steps |-> ArrayT(Ref("Step")) ])

\* a faulty variant of ConditionType that also has "xor"
ConditionType_WithXor ==
    Union(<<Lit(Str(Text.equals)), Lit(Str(Text.not_equals)), Lit(Str(Text.and)),
            Lit(Str(Text.or)), Lit(Str(Text.less_than)),
            Lit(Str(Text.less_than_equals)), Lit(Str(Text.greater_than)),
            Lit(Str(Text.greater_than_equals)), Lit(Str(Text.xor))>>)

\* export type ConditionType = "equals" | "not-equals" | "and" | "or"
\*    | "less-than" | "less-than-equals" | "greater-than"
\*    | "greater-than-equals"
ConditionType ==
    Union(<<Lit(Str(Text.equals)), Lit(Str(Text.not_equals)), Lit(Str(Text.and)),
            Lit(Str(Text.or)), Lit(Str(Text.less_than)),
            Lit(Str(Text.less_than_equals)), Lit(Str(Text.greater_than)),
            Lit(Str(Text.greater_than_equals))>>)

\* export interface ConditionValue { type: "value" | "attribute";
\*    value?: string | boolean | null; attributeId?: string | null }
ConditionValue ==
    ObjectT([ type |-> Union(<<Lit(Str(Text.value)), Lit(Str(Text.attribute))>>) ],
            [ value |-> Union(<<Primitive.string, Primitive.boolean, Primitive.null>>),
              attributeId |-> Union(<<Primitive.string, Primitive.null>>) ])

\* export interface ConditionExpression { type: ConditionType;
\*    elements: Array<ConditionValue | ConditionExpression> }
ConditionExpression ==
    ObjectT([ type |-> Ref("ConditionType"),
              elements |-> ArrayT(Union(<<Ref("ConditionValue"),
                                          Ref("ConditionExpression")>>)) ],
            NoProps)

\* export type LabelDisplay = "automatic" | "separate" | "inline"
LabelDisplay ==
    Union(<<Lit(Str(Text.automatic)), Lit(Str(Text.separate)), Lit(Str(Text.inline))>>)

\* an interface of controls.ts as a type: the required and optional fields of
\* its shape, each with the type that the table types gives it
Typed(shape, types) ==
    ObjectT([f \in shape.req |-> types[f]],
            [f \in shape.opt \ shape.req |-> types[f]])

\* the types of the fields of BaseControl
BaseControlFields ==
    [ id |-> Primitive.string, type |-> Primitive.string,
      attribute |-> Primitive.string, version |-> Primitive.number ]

\* a faulty variant of BooleanControlFields whose value cannot be null
BooleanControlFields_NoNull ==
    [ label |-> Primitive.string, labelDisplay |-> Ref("LabelDisplay"),
      labelLength |-> Primitive.number, required |-> Lit(Bool(TRUE)),
      disabled |-> Lit(Bool(TRUE)), default |-> Primitive.boolean,
      value |-> Primitive.boolean, showExplanation |-> Primitive.boolean,
      type |-> Lit(Str(Text.boolean)) ] @@ BaseControlFields

\* the types of the fields of BooleanControl (latest revision)
BooleanControlFields ==
    [ label |-> Primitive.string, labelDisplay |-> Ref("LabelDisplay"),
      labelLength |-> Primitive.number, required |-> Lit(Bool(TRUE)),
      disabled |-> Lit(Bool(TRUE)), default |-> Primitive.boolean,
      value |-> Union(<<Primitive.boolean, Primitive.null>>),
      showExplanation |-> Primitive.boolean,
      type |-> Lit(Str(Text.boolean)) ] @@ BaseControlFields

\* the types of the fields of NumberOfInstancesControl (latest revision);
\* value?: NumberOfInstancesControl["default"] | null
NumberOfInstancesControlFields ==
    [ label |-> Primitive.string, labelDisplay |-> Ref("LabelDisplay"),
      labelLength |-> Primitive.number, required |-> Lit(Bool(TRUE)),
      default |-> ArrayT(Ref("EntityInstance")), disabled |-> Lit(Bool(TRUE)),
      value |-> Union(<<ArrayT(Ref("EntityInstance")), Primitive.undefined,
                        Primitive.null>>),
      template |-> ArrayT(ControlT("Control")), entity |-> Primitive.string,
      min |-> Primitive.number, max |-> Primitive.number,
      type |-> Lit(Str(Text.number_of_instances)) ] @@ BaseControlFields

\* the types of the fields of OptionsControl (latest revision);
\* interface Option { label?: string; value: any }
OptionsControlFields ==
    [ asRadio |-> Lit(Bool(TRUE)), label |-> Primitive.string,
      labelDisplay |-> Ref("LabelDisplay"), labelLength |-> Primitive.number,
      required |-> Lit(Bool(TRUE)), disabled |-> Lit(Bool(TRUE)),
      value |-> Union(<<Primitive.string, Primitive.boolean,
                        Primitive.null>>),
      default |-> Union(<<Primitive.string, Primitive.boolean>>),
      options |-> ArrayT(ObjectT([value |-> Primitive.any],
                                 [label |-> Primitive.string])),
      allow_other |-> Lit(Bool(TRUE)), enum_id |-> Primitive.string,
      showExplanation |-> Primitive.boolean,
      type |-> Lit(Str(Text.options)) ] @@ BaseControlFields

\* the types of the fields of EntityControl<C = Control> (latest revision);
\* EntityValue = AttributeValues & EntityInstance
EntityControlFields ==
    [ label |-> Primitive.string, labelDisplay |-> Ref("LabelDisplay"),
      labelLength |-> Primitive.number, entity |-> Primitive.string,
      display |-> Union(<<Lit(Str(Text.horizontal)),
                          Lit(Str(Text.vertical))>>),
      template |-> ArrayT(ControlT("Control")),
      value |-> ArrayT(Intersection(<<Ref("AttributeValues"),
                                      Ref("EntityInstance")>>)),
      min |-> Primitive.number, max |-> Primitive.number,
      showExplanation |-> Primitive.boolean, entityId |-> Primitive.string,
      type |-> Lit(Str(Text.entity)) ] @@ BaseControlFields

\* the types of the fields of RepeatingContainerControl<C = Control> (latest
\* revision)
RepeatingContainerControlFields ==
    [ entity |-> Primitive.string,
      display |-> Union(<<Lit(Str(Text.list)), Lit(Str(Text.table))>>),
      filter |-> Union(<<Primitive.string, Primitive.null>>),
      sort |-> Union(<<Primitive.string, Primitive.null>>),
      showBorders |-> Primitive.boolean, showHeaders |-> Primitive.boolean,
      isFirst |-> Primitive.boolean, isLast |-> Primitive.boolean,
      controls |-> ArrayT(ControlT("Control")),
      type |-> Lit(Str(Text.repeating_container)) ] @@ BaseControlFields

\* export interface IOptions of the oldest control declarations
IOptions ==
    ObjectT([ id |-> Primitive.string, type |-> Lit(Str(Text.options)),
              default |-> Primitive.number, attribute |-> Primitive.string,
              options |-> ArrayT(ObjectT([ label |-> Primitive.string,
                                           value |-> Primitive.string ],
                                         NoProps)) ],
            [ as |-> Union(<<Lit(Str(Text.radio)), Lit(Str(Text.menu))>>),
              label |-> Primitive.string, required |-> Primitive.boolean,
              allow_other |-> Primitive.boolean ])

\* the revisions of core.ts: src/unnamed/part_002:1-80 and src/unnamed/part_000
OlderCore == "part_002:1-80"
LatestCore == "part_000"

\* export interface Simulate; the older data: Data is
\* { [name: AttributeId]: string | number | boolean }
Simulate(r) ==
    IF r = LatestCore
    THEN ObjectT([ mode |-> Lit(Str(Text.api)), save |-> Lit(Bool(FALSE)),
                   goal |-> Primitive.string,
                   data |-> Ref("AttributeValues") ],
                 NoProps)
    ELSE ObjectT([ goals |-> ArrayT(Primitive.string),
                   data |-> RecordT(Union(<<Primitive.string,
                                            Primitive.number,
                                            Primitive.boolean>>)) ],
                 NoProps)

\* export interface State: the latest one describes one attribute, the older
\* one is a map { [name: AttributeId]: { dependencies; value } }
State(r) ==
    IF r = LatestCore
    THEN ObjectT([ id |-> Primitive.string, type |-> Primitive.string ],
                 [ dependencies |-> ArrayT(Primitive.string),
                   value |-> Primitive.any,
                   instanceTemplate |-> Primitive.string ])
    ELSE RecordT(ObjectT([ dependencies |-> ArrayT(Primitive.string),
                           value |-> Primitive.any ],
                         NoProps))

\* the declaration that a name refers to; older.X is X as the older revision
\* declares it (Session.state: State, Session.steps: Step[], the member
\* IOptions of Control)
Decl(name) ==
    CASE name = "FileAttributeValue" -> FileAttributeValue
      [] name = "LabelDisplay" -> LabelDisplay
      [] name = "BooleanControl" ->
            Typed(BooleanControl(Latest), BooleanControlFields)
      [] name = "NumberOfInstancesControl" ->
            Typed(NumberOfInstancesControl(Latest),
                  NumberOfInstancesControlFields)
      [] name = "AttributeValue" -> AttributeValue
      [] name = "AttributeValues" -> AttributeValues
      [] name = "Parent" -> Parent
      [] name = "ResponseData" -> ResponseData
      [] name = "EntityInstance" -> EntityInstance
      [] name = "Context" -> Context
      [] name = "Step" -> Step
      [] name = "Session.steps" -> ArrayT(Ref("Step"))
      [] name = "Session.context" -> Ref("Context")
      [] name = "ConditionType" -> ConditionType
      [] name = "ConditionValue" -> ConditionValue
      [] name = "ConditionExpression" -> ConditionExpression
      [] name = "Simulate" -> Simulate(LatestCore)
      [] name = "Session.state" ->
            Union(<<ArrayT(State(LatestCore)), Primitive.undefined>>)
      [] name = "OptionsControl" ->
            Typed(OptionsControl(Latest), OptionsControlFields)
      [] name = "EntityControl" ->
            Typed(EntityControl(Latest, "Control"), EntityControlFields)
      [] name = "RepeatingContainerControl" ->
            Typed(RepeatingContainerControl(Latest, "Control"),
                  RepeatingContainerControlFields)
      [] name = "older.Simulate" -> Simulate(OlderCore)
      [] name = "older.Session.state" -> State(OlderCore)
      [] name = "older.Session.steps" -> ArrayT(Ref("Step"))
      [] name = "older.IOptions" -> IOptions

\* whether the type T declares a property named p
RECURSIVE Declares(_, _)
Declares(T, p) ==
    CASE T.t = "object" -> p \in DOMAIN T.req \cup DOMAIN T.opt
      [] T.t = "record" -> TRUE
      [] T.t \in {"union", "intersection"} ->
            \E i \in DOMAIN T.of : Declares(T.of[i], p)
      [] T.t = "ref" -> Declares(Decl(T.name), p)
      [] OTHER -> FALSE

\* whether the value x is assignable to the type T; exact: x is written as an
\* object literal, which may not set a property that T does not declare
RECURSIVE AssignableTo(_, _, _)
AssignableTo(T, x, exact) ==
    CASE T.t \in {"string", "number", "boolean", "null", "undefined"} ->
            x.k = T.t
      [] T.t = "any" -> TRUE
      [] T.t = "literal" -> x = T.v
      [] T.t = "union" -> \E i \in DOMAIN T.of : AssignableTo(T.of[i], x, exact)
      [] T.t = "intersection" ->
            /\ \A i \in DOMAIN T.of : AssignableTo(T.of[i], x, FALSE)
            /\ (exact /\ x.k = "object") =>
                  \A p \in DOMAIN x.props : Declares(T, p)
      [] T.t = "array" ->
            /\ x.k = "array"
            /\ \A i \in DOMAIN x.items : AssignableTo(T.of, x.items[i], exact)
      [] T.t = "record" ->
            /\ x.k = "object"
            /\ \A p \in DOMAIN x.props : AssignableTo(T.of, x.props[p], exact)
      [] T.t = "object" ->
            /\ x.k = "object"
            /\ DOMAIN T.req \subseteq DOMAIN x.props
            /\ \A p \in DOMAIN x.props :
                  IF p \in DOMAIN T.req
                  THEN AssignableTo(T.req[p], x.props[p], exact)
                  ELSE IF p \in DOMAIN T.opt
                  THEN \/ x.props[p].k = "undefined"
                       \/ AssignableTo(T.opt[p], x.props[p], exact)
                  ELSE ~exact
      [] T.t = "control" ->
            /\ x.k = "object"
            /\ "type" \in DOMAIN x.props
            /\ \A n \in {"BooleanControl", "NumberOfInstancesControl",
                          "OptionsControl", "EntityControl",
                          "RepeatingContainerControl"} :
                  Decl(n).req.type.v = x.props.type
                      => AssignableTo(Decl(n), x, exact)
      [] T.t = "ref" -> AssignableTo(Decl(T.name), x, exact)

\* x, written as an object literal, is assignable to T
Assignable(T, x) == AssignableTo(T, x, TRUE)

---------------------------------------------------------------------------
(* What a producer (the interview engine, or a client) writes for a        *)
(* declared type                                                           *)

\* the object literal with the properties of rec that are not Absent
Literal(rec) == Obj([p \in {q \in DOMAIN rec : rec[q] # Absent} |-> rec[p]])

\* s.steps ?? []
SubSteps(s) ==
    IF "steps" \in DOMAIN s.props /\ s.props.steps.k = "array"
    THEN s.props.steps.items
    ELSE <<>>

\* the steps of a tree, top-level and nested at every depth
RECURSIVE Flatten(_)
Flatten(items) ==
    IF items = <<>> THEN <<>>
    ELSE <<Head(items)>> \o Flatten(SubSteps(Head(items)))
                        \o Flatten(Tail(items))

\* the contexts a step is written with
StepContexts ==
    { Obj([entity |-> Str(Text.global)]),
      Obj([entity |-> Str(Text.global), id |-> Str(Text.one)]) }

\* a step with the context c and the sub-steps sub (Absent: none)
StepLiteral(c, cur, comp, sub) ==
    Literal([ id |-> Str(Text.one), title |-> Str(S_text), context |-> c,
              current |-> Bool(cur), complete |-> Bool(comp),
              visited |-> Bool(FALSE), skipped |-> Bool(FALSE),
              visitable |-> Bool(TRUE), steps |-> sub ])

\* the condition types a producer writes: the eight, and one more
ConditionTypePool ==
    {Text.equals, Text.not_equals, Text.and, Text.or, Text.less_than, Text.less_than_equals,
     Text.greater_than, Text.greater_than_equals, Text.xor}

\* the types of an expression written around another
WrapTypePool == {Text.and, Text.equals, Text.xor}

ConditionLiteral(type, elems) ==
    Obj([type |-> Str(type), elements |-> Arr(elems)])

ConditionValuePool ==
    { Literal([type |-> Str(t), value |-> val, attributeId |-> a]) :
        t \in {Text.value, Text.attribute},
        val \in {Absent, Bool(TRUE), Null},
        a \in {Absent, Str(Text.a)} }

\* whether an element of a condition is written as an expression
IsExpressionLiteral(e) == e.k = "object" /\ "elements" \in DOMAIN e.props

\* the nodes of a condition: its expressions and its values
RECURSIVE ConditionNodes(_)
RECURSIVE ConditionNodesIn(_)
ConditionNodes(e) ==
    IF IsExpressionLiteral(e) /\ e.props.elements.k = "array"
    THEN 1 + ConditionNodesIn(e.props.elements.items)
    ELSE 1
ConditionNodesIn(items) ==
    IF items = <<>> THEN 0
    ELSE ConditionNodes(Head(items)) + ConditionNodesIn(Tail(items))

ContextPool ==
    { Literal([entity |-> e, id |-> i, parent |-> q]) :
        e \in {Absent, Str(Text.global), Str(Text.person)},
        i \in {Absent, Undefined, Str(Text.one), Num(1)},
        q \in {Absent, Str(Text.path)} }

\* values of an attribute in a response, some of them no AttributeValue
AnswerPool ==
    { Absent, Str(S_text), Num(5), Bool(TRUE), Null, Undefined,
      Obj([type |-> Str(FILE_TAG), value |-> Arr(<<Str(S_bare)>>)]),
      Arr(<<Obj([name |-> Str(S_text)])>>),
      Arr(<<Str(S_text)>>) }

ResponseDataPool ==
    { Literal([p \in {"@parent", "a"} |-> IF p = "a" THEN val ELSE par]) :
        par \in {Absent, Undefined, Null, Str(Text.path), Num(1)},
        val \in AnswerPool }

BooleanControlPool ==
    { Literal([ id |-> Str(Text.one), type |-> Str(Text.boolean),
                attribute |-> Str(Text.a), value |-> val, default |-> d,
                labelLength |-> len ]) :
        val \in {Absent, Undefined, Null, Bool(TRUE), Bool(FALSE), Num(0),
                 Str(S_empty)},
        d \in {Absent, Bool(FALSE), Null},
        len \in {Absent, Num(5), NaN} }

NumberOfInstancesControlPool ==
    { Literal([ id |-> Str(Text.one), type |-> Str(Text.number_of_instances),
                entity |-> Str(Text.person), min |-> lo, max |-> hi,
                default |-> d ]) :
        lo \in {Absent} \cup {Num(n) : n \in 0..MaxLen},
        hi \in {Absent} \cup {Num(n) : n \in 0..MaxLen},
        d \in {Absent} \cup
               { Arr(a) : a \in ArraysOf({Obj([p \in {"@id"} |->
                                                  Str(Text.one)])}, MaxLen) } }

\* an entity control or a repeating container, over the entity e, that
\* holds the controls ks
ContainerLiteral(tag, e, ks) ==
    Literal([ id |-> Str(Text.one), type |-> Str(tag), entity |-> Str(e),
              template |-> IF tag = Text.entity THEN Arr(ks) ELSE Absent,
              controls |-> IF tag = Text.entity THEN Absent ELSE Arr(ks) ])

\* the containers a producer writes: empty, around a boolean control, and
\* around another container over the same or another entity
ContainerPool ==
    LET tags == {Text.entity, Text.repeating_container}
        names == {Text.person, Text.pet}
        inner == {<<>>}
                   \cup {<<Obj([ id |-> Str(Text.one),
                                 type |-> Str(Text.boolean),
                                 attribute |-> Str(Text.a) ])>>}
                   \cup { <<ContainerLiteral(t, e, <<>>)>> :
                            t \in tags, e \in names }
    IN  [ t \in tags |->
            {ContainerLiteral(t, e, ks) : e \in names, ks \in inner} ]

\* the declared types a producer writes a value for
LiteralDecls ==
    {"Session.context", "Session.steps", "ConditionExpression",
     "ResponseData", "BooleanControl", "NumberOfInstancesControl",
     "EntityControl", "RepeatingContainerControl"}

\* what it first writes for each: an empty step list and a condition without
\* elements are filled in afterwards
Literals ==
    [ d \in LiteralDecls |->
        CASE d = "Session.context" -> ContextPool
          [] d = "Session.steps" -> {Arr(<<>>)}
          [] d = "ConditionExpression" ->
                {ConditionLiteral(t, <<>>) : t \in ConditionTypePool}
          [] d = "ResponseData" -> ResponseDataPool
          [] d = "BooleanControl" -> BooleanControlPool
          [] d = "NumberOfInstancesControl" -> NumberOfInstancesControlPool
          [] d = "EntityControl" -> ContainerPool[Text.entity]
          [] d = "RepeatingContainerControl" ->
                ContainerPool[Text.repeating_container] ]

---------------------------------------------------------------------------
(* JSON.stringify and JSON.parse on the values above.  A JSON text is kept  *)
(* as its syntax tree: null, true / false, a number, a string, an array, an *)
(* object with its members.                                                 *)

\* nothing is in flight; also JSON.stringify(undefined), which is no text
NoText == [j |-> "none"]

\* JSON.stringify(x): a property whose value is undefined is left out, an
\* undefined element of an array and a number that is not finite become null
RECURSIVE Stringify(_)
Stringify(x) ==
    CASE x.k = "undefined" -> NoText
      [] x.k = "null" -> [j |-> "null"]
      [] x.k = "boolean" -> [j |-> "boolean", b |-> x.b]
      [] x.k = "number" ->
            IF "n" \in DOMAIN x THEN [j |-> "number", n |-> x.n]
            ELSE [j |-> "null"]
      [] x.k = "string" -> [j |-> "string", s |-> x.s]
      [] x.k = "array" ->
            [ j |-> "array",
              items |-> [i \in DOMAIN x.items |->
                            IF x.items[i].k = "undefined" THEN [j |-> "null"]
                            ELSE Stringify(x.items[i])] ]
      [] x.k = "object" ->
            [ j |-> "object",
              members |->
                  [p \in {q \in DOMAIN x.props : x.props[q].k # "undefined"}
                      |-> Stringify(x.props[p])] ]

\* JSON.parse(t)
RECURSIVE Parse(_)
Parse(t) ==
    CASE t.j = "null" -> Null
      [] t.j = "boolean" -> Bool(t.b)
      [] t.j = "number" -> Num(t.n)
      [] t.j = "string" -> Str(t.s)
      [] t.j = "array" -> Arr([i \in DOMAIN t.items |-> Parse(t.items[i])])
      [] t.j = "object" ->
            Obj([p \in DOMAIN t.members |-> Parse(t.members[p])])

\* what a producer built against the older declarations writes for them
OlderLiterals ==
    [ d \in {"older.Simulate", "older.Session.state", "older.Session.steps",
             "older.IOptions"} |->
        CASE d = "older.Simulate" ->
                { Literal([goals |-> g, data |-> dat, mode |-> m]) :
                    g \in {Absent, Arr(<<>>), Arr(<<Str(Text.a)>>)},
                    dat \in {Absent, Obj(NoProps), Obj([a |-> Num(5)])},
                    m \in {Absent, Str(Text.api)} }
          [] d = "older.Session.state" ->
                { Obj(NoProps),
                  Obj([a |-> Obj([ dependencies |-> Arr(<<>>),
                                   value |-> Num(5) ])]),
                  Obj([a |-> Obj([value |-> Num(5)])]),
                  Arr(<<>>),
                  Arr(<<Obj([id |-> Str(Text.a)])>>) }
          [] d = "older.Session.steps" ->
                {Arr(<<>>)} \cup
                { Arr(<<StepLiteral(c, TRUE, FALSE, sub)>>) :
                    c \in StepContexts, sub \in {Absent, Arr(<<>>)} }
          [] d = "older.IOptions" ->
                { Literal([ id |-> Str(Text.one), type |-> Str(Text.options),
                            attribute |-> Str(Text.a),
                            options |-> Arr(<<>>), default |-> dflt,
                            as |-> disp, required |-> rq ]) :
                    dflt \in {Absent, Num(0), Str(Text.a)},
                    disp \in {Absent, Str(Text.radio)},
                    rq \in {Absent, Bool(FALSE)} } ]

---------------------------------------------------------------------------
(* The state machine *)

Init ==
    /\ rev \in Revisions
    /\ pc = 0
    /\ exports = [n \in Range(ConstOrder) |-> TDZ]
    /\ v = NoArg
    /\ ret = "none"
    /\ ctl = NoControl
    /\ doc = NoDoc
    /\ wire = NoText
    /\ back = NoArg

\* the module evaluates its next const declaration
LoadConstant ==
    /\ pc < Len(ConstOrder)
    /\ pc' = pc + 1
    /\ exports' = [exports EXCEPT ![ConstOrder[pc + 1]] =
                      Initialised(Initialiser(rev, ConstOrder[pc + 1],
                                              exports))]
    /\ UNCHANGED <<rev, v, ret, ctl, doc, wire, back>>

\* a client of the latest core.ts sets up a call isFileAttributeValue(x)
PassArgument ==
    /\ Loaded
    /\ rev = Latest
    /\ ctl = NoControl
    /\ doc = NoDoc
    /\ v = NoArg
    /\ \E x \in Inputs : v' = x
    /\ ret' = "none"
    /\ UNCHANGED <<rev, pc, exports, ctl, doc, wire, back>>

\* the call runs: lines 62-70
CallIsFileAttributeValue ==
    /\ v # NoArg
    /\ ret = "none"
    /\ ret' = isFileAttributeValue(v)
    /\ UNCHANGED <<rev, pc, exports, v, ctl, doc, wire, back>>

\* a client writes a control literal with a tag and the tag's required fields
AuthorControl ==
    /\ Loaded
    /\ rev \in {Earlier, Latest}
    /\ v = NoArg
    /\ ctl = NoControl
    /\ doc = NoDoc
    /\ \E tag \in TagPool :
          ctl' = MakeControl(tag, MinimalFields(rev, tag), "none", <<>>)
    /\ UNCHANGED <<rev, pc, exports, v, ret, doc, wire, back>>

\* the client sets one more field on the control
SetField ==
    /\ ctl # NoControl
    /\ ExtrasIn(ctl) < MaxExtra
    /\ \E f \in ExtraFields \ ctl.fields :
          ctl' = [ctl EXCEPT !.fields = @ \cup {f}]
    /\ UNCHANGED <<rev, pc, exports, v, ret, doc, wire, back>>

\* the client nests the control in a field of a new container
WrapControl ==
    /\ ctl # NoControl
    /\ Depth(ctl) < MaxDepth
    /\ \E n \in Nestings :
          ctl' = MakeControl(n[1], MinimalFields(rev, n[1]) \cup {n[2]}, n[2],
                             <<ctl>>)
    /\ UNCHANGED <<rev, pc, exports, v, ret, doc, wire, back>>

\* a producer writes a value for a declared type of the latest revision
WriteLiteral ==
    /\ Loaded
    /\ rev = Latest
    /\ v = NoArg
    /\ ctl = NoControl
    /\ doc = NoDoc
    /\ \E d \in LiteralDecls : \E x \in Literals[d] :
          doc' = [decl |-> d, val |-> x]
    /\ UNCHANGED <<rev, pc, exports, v, ret, ctl, wire, back>>

\* a producer built against an older revision writes a value for one of the
\* older declarations
WriteOlderLiteral ==
    /\ Loaded
    /\ rev # Latest
    /\ v = NoArg
    /\ ctl = NoControl
    /\ doc = NoDoc
    /\ \E d \in DOMAIN OlderLiterals : \E x \in OlderLiterals[d] :
          doc' = [decl |-> d, val |-> x]
    /\ UNCHANGED <<rev, pc, exports, v, ret, ctl, wire, back>>

\* the written control, a Control of the latest revision, is encoded
EncodeControl ==
    /\ doc.decl \in {"BooleanControl", "NumberOfInstancesControl",
                     "EntityControl", "RepeatingContainerControl"}
    /\ Assignable(Decl(doc.decl), doc.val)
    /\ wire = NoText
    /\ wire' = Stringify(doc.val)
    /\ UNCHANGED <<rev, pc, exports, v, ret, ctl, doc, back>>

\* the receiver decodes the text
DecodeControl ==
    /\ wire # NoText
    /\ back = NoArg
    /\ back' = Parse(wire)
    /\ UNCHANGED <<rev, pc, exports, v, ret, ctl, doc, wire>>

\* the producer appends a step without sub-steps to the top-level steps
AddStep ==
    /\ doc.decl = "Session.steps"
    /\ Len(Flatten(doc.val.items)) < MaxNodes
    /\ \E c \in StepContexts : \E cur, comp \in BOOLEAN :
          doc' = [doc EXCEPT !.val =
                     Arr(Append(@.items, StepLiteral(c, cur, comp, Absent)))]
    /\ UNCHANGED <<rev, pc, exports, v, ret, ctl, wire, back>>

\* the producer groups the top-level steps under a new step
NestSteps ==
    /\ doc.decl = "Session.steps"
    /\ Len(Flatten(doc.val.items)) < MaxNodes
    /\ \E c \in StepContexts : \E cur, comp \in BOOLEAN :
          doc' = [doc EXCEPT !.val =
                     Arr(<<StepLiteral(c, cur, comp, @)>>)]
    /\ UNCHANGED <<rev, pc, exports, v, ret, ctl, wire, back>>

\* the producer appends a value to the elements of the condition
AddConditionValue ==
    /\ doc.decl = "ConditionExpression"
    /\ ConditionNodes(doc.val) < MaxNodes
    /\ \E cv \in ConditionValuePool :
          doc' = [doc EXCEPT !.val.props.elements =
                     Arr(Append(@.items, cv))]
    /\ UNCHANGED <<rev, pc, exports, v, ret, ctl, wire, back>>

\* the producer makes the condition the element of a new expression
WrapCondition ==
    /\ doc.decl = "ConditionExpression"
    /\ ConditionNodes(doc.val) < MaxNodes
    /\ \E t \in WrapTypePool :
          doc' = [doc EXCEPT !.val = ConditionLiteral(t, <<@>>)]
    /\ UNCHANGED <<rev, pc, exports, v, ret, ctl, wire, back>>

\* the client drops the result of the call, the control or the written value,
\* and starts afresh
Discard ==
    /\ \/ v # NoArg /\ ret # "none"
       \/ ctl # NoControl
       \/ doc # NoDoc
    /\ v' = NoArg
    /\ ret' = "none"
    /\ ctl' = NoControl
    /\ doc' = NoDoc
    /\ wire' = NoText
    /\ back' = NoArg
    /\ UNCHANGED <<rev, pc, exports>>

Next ==
    \/ LoadConstant
    \/ PassArgument
    \/ CallIsFileAttributeValue
    \/ AuthorControl
    \/ SetField
    \/ WrapControl
    \/ WriteLiteral
    \/ WriteOlderLiteral
    \/ EncodeControl
    \/ DecodeControl
    \/ AddStep
    \/ NestSteps
    \/ AddConditionValue
    \/ WrapCondition
    \/ Discard

Spec == Init /\ [][Next]_vars

---------------------------------------------------------------------------
(* Properties *)

\* s begins with t
StartsWith(s, t) == Len(s) >= Len(t) /\ SubSeq(s, 1, Len(t)) = t

\* an entry that is a string beginning with "data:id="
WellFormedEntry(e) == e.k = "string" /\ StartsWith(e.s, DATA_ID_PREFIX)

\* the call on v has ended, by a return or by a throw
Called == v # NoArg /\ ret # "none"

\* v is an object that has a type and a value, the value an array
HasTypeAndArray(x) ==
    /\ x.k = "object"
    /\ {"type", "value"} \subseteq DOMAIN x.props
    /\ x.props.value.k = "array"

\* v has the shape {type, value: array of strings}
HasTypeAndStrings(x) ==
    /\ HasTypeAndArray(x)
    /\ \A i \in DOMAIN x.props.value.items : x.props.value.items[i].k = "string"

\* C1: for every v of the shape {type, value: array of strings},
\* isFileAttributeValue(v) returns true if and only if v.type is "file" and
\* every string of v.value starts with "data:id="; one entry without the
\* prefix, at any position, makes the result false.
C1_TrueIffFileAndAllPrefixed ==
    (Called /\ HasTypeAndStrings(v)) =>
        /\ ret \in {"true", "false"}
        /\ ret = "true" <=>
              /\ v.props.type = Str(FILE_TAG)
              /\ \A i \in DOMAIN v.props.value.items :
                    StartsWith(v.props.value.items[i].s, DATA_ID_PREFIX)

\* the example of the specification: a conforming entry, then "bogus"
C1_Witness ==
    /\ v = Obj([type |-> Str(FILE_TAG), value |-> Arr(<<Str(S_full), Str(S_bogus)>>)])
    /\ ret = "false"

\* C2: for every object whose type is "file" and whose value is an array with
\* at least one malformed entry (an entry that is not a string beginning with
\* "data:id=", a number, null or a nested array included),
\* isFileAttributeValue returns false.
C2_MalformedEntryRejected ==
    ( /\ Called
      /\ HasTypeAndArray(v)
      /\ v.props.type = Str(FILE_TAG)
      /\ \E i \in DOMAIN v.props.value.items : ~WellFormedEntry(v.props.value.items[i]) )
        => ret = "false"

\* C3: isFileAttributeValue returns false for every string, number and
\* boolean, for null and undefined, for every array of entity rows, for every
\* object whose type is missing or is not exactly "file" (also when every
\* entry of its value carries the prefix), and for every object of type
\* "file" whose value is not an array.
C3_OnlyTheFileVariant ==
    Called =>
        ( ( \/ v.k \in {"string", "number", "boolean", "null", "undefined", "array"}
            \/ /\ v.k = "object"
               /\ \/ "type" \notin DOMAIN v.props
                  \/ v.props.type # Str(FILE_TAG)
            \/ /\ v.k = "object"
               /\ \/ "value" \notin DOMAIN v.props
                  \/ v.props.value.k # "array" )
          => ret = "false" )

\* an object of another type, all of whose entries carry the prefix
C3_Witness ==
    /\ v = Obj([type |-> Str(S_text), value |-> Arr(<<Str(S_full), Str(S_bare)>>)])
    /\ ret = "false"

\* C4: the exported format constants are "yyyy-MM-dd", "HH:mm:ss",
\* "h:mm:ss a", "yyyy-MM-dd HH:mm:ss" and "yyyy-MM-dd h:mm:ss a"; each
\* date-time constant is DATE_FORMAT, one space, then the time constant.
C4_FormatConstants ==
    Loaded =>
        /\ exports["DATE_FORMAT"].s = <<"y", "y", "y", "y", "-", "M", "M", "-", "d", "d">>
        /\ exports["TIME_FORMAT_24"].s = <<"H", "H", ":", "m", "m", ":", "s", "s">>
        /\ exports["TIME_FORMAT_12"].s = <<"h", ":", "m", "m", ":", "s", "s", " ", "a">>
        /\ exports["DATE_TIME_FORMAT_24"].s =
              <<"y", "y", "y", "y", "-", "M", "M", "-", "d", "d", " ",
                "H", "H", ":", "m", "m", ":", "s", "s">>
        /\ exports["DATE_TIME_FORMAT_12"].s =
              <<"y", "y", "y", "y", "-", "M", "M", "-", "d", "d", " ",
                "h", ":", "m", "m", ":", "s", "s", " ", "a">>
        /\ \A n \in Range(ConstOrder) : exports[n].init
        /\ exports["DATE_TIME_FORMAT_24"].s =
              exports["DATE_FORMAT"].s \o <<" ">> \o exports["TIME_FORMAT_24"].s
        /\ exports["DATE_TIME_FORMAT_12"].s =
              exports["DATE_FORMAT"].s \o <<" ">> \o exports["TIME_FORMAT_12"].s

\* the module has evaluated its last const declaration
C4_Witness == Loaded /\ exports["DATE_TIME_FORMAT_12"].init /\ v = NoArg /\ ctl = NoControl

\* the revisions that declare both families
BothFamilies == rev \in {Earlier, Latest}

\* the 15 tags of the latest declarations
FifteenTags ==
    {"boolean", "currency", "date", "time", "datetime", "options", "file",
     "image", "number_of_instances", "text", "typography", "entity",
     "repeating_container", "certainty_container", "switch_container"}

\* per revision: how many tags ControlType has, and whether they are the 15
TagCount == [r \in DeclRevisions |-> Cardinality(ControlType(r))]
TagsAreTheFifteen == [r \in DeclRevisions |-> ControlType(r) = FifteenTags]

\* C5, as stated: ControlType is a fixed set of exactly 14 tags, and a control
\* whose type is outside it is a member neither of Control nor of
\* RenderableControl.
C5_Original ==
    rev = Latest =>
        /\ TagCount[rev] = 14
        /\ (ctl # NoControl /\ ctl.type \notin ControlType(rev))
              => ~IsControl(ctl) /\ ~IsRenderableControl(ctl)

\* C5, amended: ControlType is a fixed set of exactly 15 tags (boolean,
\* currency, date, time, datetime, options, file, image, number_of_instances,
\* text, typography, entity, repeating_container, certainty_container,
\* switch_container), and a control whose type is outside it is a member
\* neither of Control nor of RenderableControl.
C5_FifteenTags ==
    rev = Latest =>
        /\ TagsAreTheFifteen[rev]
        /\ TagCount[rev] = 15
        /\ (ctl # NoControl /\ ctl.type \notin ControlType(rev))
              => ~IsControl(ctl) /\ ~IsRenderableControl(ctl)

\* a control with a tag outside the set, alone or wrapping another control
C5_Witness ==
    /\ rev = Latest
    /\ ctl.type = UnknownTag
    /\ ~IsControl(ctl)
    /\ ~IsRenderableControl(ctl)

\* per revision and family: no two members of the union share a type tag
NoSharedTag ==
    [r \in DeclRevisions |->
        [fam \in Families |->
            LET ms == MembersOf[r][fam]
                sh == ShapeOf[r][fam]
            IN  \A i, j \in DOMAIN ms : sh[ms[i]].type = sh[ms[j]].type => i = j]]

\* C6: in the Control union and in the RenderableControl union no two members
\* share a type tag, so the type of a control value selects exactly one
\* member shape.
C6_TagDeterminesMember ==
    BothFamilies =>
        \A fam \in Families :
            LET ms == MembersOf[rev][fam]
                sh == ShapeOf[rev][fam]
            IN  /\ NoSharedTag[rev][fam]
                /\ (ctl # NoControl /\ Conforms(rev, fam, ctl)) =>
                      Cardinality({i \in DOMAIN ms : sh[ms[i]].type = ctl.type}) = 1

\* an entity control that is a member of the design-time family
C6_Witness ==
    /\ rev = Latest
    /\ ctl.type = "entity"
    /\ IsControl(ctl)
    /\ Children(ctl) # {}

\* per revision: the tags of both families are the same
SameTags == [r \in DeclRevisions |-> ControlType(r) = RenderableControlType(r)]

\* C7: in every revision that declares both families the type tags of
\* Control are the type tags of RenderableControl: every control type has a
\* design shape and a renderable shape.
C7_SameTagsInEveryRevision == BothFamilies => SameTags[rev]

\* the fields that only a hydrated control has
RuntimeOnly == {"instances", "branch", "loading", "dynamicAttributes"}

\* per revision: no member of the Control union declares a run-time field,
\* and the controls a member nests are Control
DesignDeclaresNoRuntimeField ==
    [r \in DeclRevisions |->
        \A i \in DOMAIN MembersOf[r]["Control"] :
            LET d == ShapeOf[r]["Control"][MembersOf[r]["Control"][i]]
            IN  /\ (d.req \cup d.opt) \cap RuntimeOnly = {}
                /\ \A n \in d.nest : n.of = "Control"]

\* C8: no member of the Control union declares instances, branch, loading or
\* dynamicAttributes, and the controls it nests are Control again: a member
\* of the design-time family sets none of them at any depth.
C8_NoRuntimeFieldAtDesignTime ==
    BothFamilies =>
        /\ DesignDeclaresNoRuntimeField[rev]
        /\ (ctl # NoControl /\ IsControl(ctl)) =>
              \A c \in Descendants(ctl) : c.fields \cap RuntimeOnly = {}

\* a design-time container that holds another control
C8_Witness ==
    /\ rev = Latest
    /\ IsControl(ctl)
    /\ ctl.type = "switch_container"
    /\ Nested(ctl) # {}

\* C9: the design-time repeating_container does not carry isFirst and isLast:
\* a client-authored control cannot set them.
C9_NoIsFirstAtDesignTime ==
    (BothFamilies /\ ctl.type = "repeating_container" /\ IsControl(ctl))
        => ctl.fields \cap {"isFirst", "isLast"} = {}

\* C10: every control nested at any depth in a member of RenderableControl is
\* a member of RenderableControl.
C10_RenderableClosedUnderNesting ==
    (BothFamilies /\ ctl # NoControl /\ IsRenderableControl(ctl))
        => \A c \in Nested(ctl) : IsRenderableControl(c)

\* C11: no options control that is a member of RenderableControl, directly
\* on a screen or nested in a container at any depth, carries enum_id.
C11_NoEnumIdWhenHydrated ==
    (BothFamilies /\ ctl # NoControl /\ IsRenderableControl(ctl))
        => \A c \in Descendants(ctl) :
              c.type = "options" => "enum_id" \notin c.fields

\* a value has been written for the declared type d and is assignable to it
Written(d) == doc.decl = d /\ Assignable(Decl(d), doc.val)

\* the steps of the written step tree, at every depth
AllSteps == Flatten(doc.val.items)

\* C12: exactly one step of the flattened steps tree of a session (top-level
\* steps and nested steps at every depth) has current = true.
C12_ExactlyOneCurrentStep ==
    Written("Session.steps") =>
        Cardinality({i \in DOMAIN AllSteps :
                        AllSteps[i].props.current = Bool(TRUE)}) = 1

\* C13: for every step s, s.complete = true implies that every element of
\* s.steps (empty when absent) has complete = true.
C13_CompleteOnlyWithCompleteSubSteps ==
    Written("Session.steps") =>
        \A i \in DOMAIN AllSteps :
            AllSteps[i].props.complete = Bool(TRUE) =>
                \A j \in DOMAIN SubSteps(AllSteps[i]) :
                    SubSteps(AllSteps[i])[j].props.complete = Bool(TRUE)

\* the contexts of the written value: that of a session, those of its steps
ContextsWritten ==
    IF Written("Session.context") THEN {doc.val}
    ELSE IF Written("Session.steps")
    THEN {AllSteps[i].props.context : i \in DOMAIN AllSteps}
    ELSE {}

\* C14: for every context c, on a session or on any step, c.entity =
\* "global" implies that c.id is absent (undefined).
C14_GlobalContextHasNoId ==
    \A c \in ContextsWritten :
        c.props.entity = Str(Text.global) => GetProp(c, "id") = Undefined

\* the elements of an expression
ElementsOf(e) ==
    IF e.props.elements.k = "array" THEN Range(e.props.elements.items) ELSE {}

\* e and the expressions among its elements, at every depth
RECURSIVE Expressions(_)
Expressions(e) ==
    {e} \cup UNION {Expressions(x) :
                      x \in {el \in ElementsOf(e) : IsExpressionLiteral(el)}}

\* the condition values of the written condition, at every depth
ConditionValuesWritten ==
    UNION {{el \in ElementsOf(e) : ~IsExpressionLiteral(el)} :
             e \in Expressions(doc.val)}

\* value is set: present and not undefined (null is a value to compare with)
HasValue(cv) == GetProp(cv, "value") # Undefined
\* attributeId is set: present and a string
HasAttributeId(cv) == GetProp(cv, "attributeId").k = "string"

\* C15: for every ConditionValue of a condition expression exactly one of
\* value and attributeId is set, never both and never neither, and which one
\* is set agrees with the type tag.
C15_ExactlyOneOfValueAndAttributeId ==
    Written("ConditionExpression") =>
        \A cv \in ConditionValuesWritten :
            /\ HasValue(cv) # HasAttributeId(cv)
            /\ cv.props.type = Str(Text.value) <=> HasValue(cv)

Connectives == {Text.and, Text.or}
Comparisons ==
    {Text.equals, Text.not_equals, Text.less_than, Text.less_than_equals, Text.greater_than,
     Text.greater_than_equals}

\* C16: for every expression at any depth, when its type is "and" or "or"
\* every element is an expression, and when its type is a comparison it has
\* exactly two elements and both are condition values.
C16_ElementsFitTheOperator ==
    Written("ConditionExpression") =>
        \A e \in Expressions(doc.val) :
            /\ e.props.type.s \in Connectives =>
                  \A el \in ElementsOf(e) : IsExpressionLiteral(el)
            /\ e.props.type.s \in Comparisons =>
                  /\ Len(e.props.elements.items) = 2
                  /\ \A el \in ElementsOf(e) : ~IsExpressionLiteral(el)

\* ConditionType admits the eight operators and no other string written
ConditionTypeIsTheEight ==
    \A t \in ConditionTypePool :
        Assignable(ConditionType, Str(t)) <=> t \in Connectives \cup Comparisons

\* C17: ConditionType is exactly the eight operators, and an expression is a
\* ConditionExpression only if its type, and the type of every expression
\* nested in it at any depth, is one of the eight.
C17_OnlyTheEightOperators ==
    doc.decl = "ConditionExpression" =>
        /\ ConditionTypeIsTheEight
        /\ Assignable(ConditionExpression, doc.val) <=>
              \A e \in Expressions(doc.val) :
                  e.props.type.s \in Connectives \cup Comparisons

\* an "and" that holds an expression of the type "xor" is rejected
C17_Witness ==
    /\ doc.decl = "ConditionExpression"
    /\ doc.val.props.type = Str(Text.and)
    /\ \E e \in Expressions(doc.val) : e # doc.val /\ e.props.type = Str(Text.xor)
    /\ ~Assignable(ConditionExpression, doc.val)

\* the three answers of a boolean control
BooleanAnswers == {Bool(TRUE), Bool(FALSE), Null}

\* C18: the value of a boolean control is true, false or null, three
\* different answers, or it is absent (undefined), a fourth state; nothing
\* else is a value of the control (0 and "" are not), and null is an answer
\* only: the default of the control is true or false, never null.
C18_BooleanValueIsTriState ==
    doc.decl = "BooleanControl" =>
        /\ Cardinality(BooleanAnswers \cup {Undefined}) = 4
        /\ Assignable(Decl("BooleanControl"), doc.val) <=>
              /\ GetProp(doc.val, "value") \in BooleanAnswers \cup {Undefined}
              /\ GetProp(doc.val, "default") \in
                    {Bool(TRUE), Bool(FALSE), Undefined}

\* a boolean control that is reviewed but unanswered, its default false
C18_Witness ==
    /\ Written("BooleanControl")
    /\ GetProp(doc.val, "value") = Null
    /\ GetProp(doc.val, "default") = Bool(FALSE)

\* C19: the number of instances of a number_of_instances control is at
\* least min and at most max when these are set: a control with min 2, max 2
\* and a default of one instance is not accepted.
C19_CountWithinMinAndMax ==
    (Written("NumberOfInstancesControl") /\ GetProp(doc.val, "default").k = "array")
        => LET count == Len(doc.val.props.default.items)
               lo == GetProp(doc.val, "min")
               hi == GetProp(doc.val, "max")
           IN  /\ lo.k = "number" => lo.n <= count
               /\ hi.k = "number" => count <= hi.n

\* C20: every ResponseData value has the "@parent" field, its value a string
\* or undefined, and every other key of it is mapped to an AttributeValue.
C20_ResponseDataHasParent ==
    Written("ResponseData") =>
        /\ "@parent" \in DOMAIN doc.val.props
        /\ doc.val.props["@parent"].k \in {"string", "undefined"}
        /\ \A p \in DOMAIN doc.val.props \ {"@parent"} :
              Assignable(AttributeValue, doc.val.props[p])

\* a response for a row of a sub-entity: the parent path and a file answer
C20_Witness ==
    /\ Written("ResponseData")
    /\ doc.val.props["@parent"] = Str(Text.path)
    /\ "a" \in DOMAIN doc.val.props
    /\ isFileAttributeValue(doc.val.props["a"]) = "true"

\* the entries of v.value, a sequence of strings
Entries(x) == [i \in DOMAIN x.props.value.items |-> x.props.value.items[i].s]

\* C24: for an object of type "file" whose value holds strings,
\* isFileAttributeValue looks at the first eight characters of every entry
\* and at nothing after them: "data:id=" alone and "data:id=<ref>" followed by
\* ";base64,<filename>" are accepted, and an entry in which "data:id=" begins
\* after position 0, or is written in another letter case, is rejected.
C24_PrefixAtPositionZeroOnly ==
    (Called /\ HasTypeAndStrings(v) /\ v.props.type = Str(FILE_TAG)) =>
        LET es == Entries(v)
        IN  /\ ret = "true" <=>
                  \A i \in DOMAIN es :
                      StartsWith(es[i], DATA_ID_PREFIX)
            /\ Range(es) \subseteq {S_bare, S_full} => ret = "true"
            /\ Range(es) \cap {S_inner, S_upper} # {} => ret = "false"

\* the bare prefix and a full entry are accepted together; S_inner holds the
\* prefix from position 1 on
C24_Witness ==
    /\ v = Obj([type |-> Str(FILE_TAG),
                value |-> Arr(<<Str(S_bare), Str(S_full)>>)])
    /\ ret = "true"
    /\ StringIndexOf(S_inner, DATA_ID_PREFIX) = 1

\* C25: isFileAttributeValue is total: whatever value it is called with, it
\* returns true or false and throws no exception.
C25_NeverThrows == Called => ret \in {"true", "false"}

\* the object x without its property p
Without(x, p) == Obj([q \in DOMAIN x.props \ {p} |-> x.props[q]])

\* C27: isFileAttributeValue returns true for an object of type "file" whose
\* value is the empty array, and a further property of the object has no
\* part in the result: the object with the property name and the object
\* without it get the same result, accepted or rejected.
C27_EmptyValueAndExtraFields ==
    (Called /\ v.k = "object") =>
        /\ ( GetProp(v, "type") = Str(FILE_TAG)
             /\ GetProp(v, "value") = Arr(<<>>) ) => ret = "true"
        /\ ret = isFileAttributeValue(Without(v, "name"))

\* a file value without references that has a further property
C27_Witness ==
    /\ v = Obj([type |-> Str(FILE_TAG), value |-> Arr(<<>>),
                name |-> Str(S_bogus)])
    /\ ret = "true"

\* the bindings after the revision r has evaluated its declarations from the
\* i-th on, starting with the bindings ex
RECURSIVE Evaluate(_, _, _)
Evaluate(r, ex, i) ==
    IF i > Len(ConstOrder) THEN ex
    ELSE Evaluate(r, [ex EXCEPT ![ConstOrder[i]] =
                         Initialised(Initialiser(r, ConstOrder[i], ex))],
                  i + 1)

\* C28: the five format constants have the same values in the three files
\* that define them, and once a constant is initialised no step of the
\* package gives it another value.
C28_SameConstantsInEveryRevision ==
    /\ [](Loaded =>
             \A r \in Revisions :
                 exports = Evaluate(r, [n \in Range(ConstOrder) |-> TDZ], 1))
    /\ [][\A n \in Range(ConstOrder) :
              exports[n].init => exports'[n] = exports[n]]_vars

\* the oldest of the three files has evaluated its five declarations
C28_Witness ==
    /\ rev = "controls.ts"
    /\ Loaded
    /\ exports["DATE_TIME_FORMAT_12"].s =
          FormatLiterals["part_002"].DATE_FORMAT \o <<" ">>
            \o FormatLiterals["part_004"].TIME_FORMAT_12

\* the latest declaration that took the place of an older one
LatestOf(d) ==
    CASE d = "older.Simulate" -> Decl("Simulate")
      [] d = "older.Session.state" -> Decl("Session.state")
      [] d = "older.Session.steps" -> Decl("Session.steps")
      [] d = "older.IOptions" -> Decl("OptionsControl")

\* the written value conforms to the older declaration it was written for
WrittenOlder == doc.decl \in DOMAIN OlderLiterals /\ Written(doc.decl)

\* C21: every value that conforms to an older revision of the declarations
\* (a Simulate, the state and the steps of a Session, a Control) conforms to
\* the latest revision too, further properties of the value being allowed.
C21_LatestIsSuperset ==
    /\ WrittenOlder => AssignableTo(LatestOf(doc.decl), doc.val, FALSE)
    /\ (rev = Earlier /\ ctl # NoControl /\ Conforms(Earlier, "Control", ctl))
          => Conforms(Latest, "Control", ctl)

Held(x) ==
    LET f == IF "template" \in DOMAIN x.props THEN "template" ELSE "controls"
    IN  IF f \in DOMAIN x.props /\ x.props[f].k = "array"
        THEN Range(x.props[f].items)
        ELSE {}

\* no container in x, at any depth, is over an entity of names or over the
\* entity of a container around it
RECURSIVE NoRepeat(_, _)
NoRepeat(x, names) ==
    IF "entity" \notin DOMAIN x.props THEN TRUE
    ELSE /\ x.props.entity \notin names
         /\ \A c \in Held(x) : NoRepeat(c, names \cup {x.props.entity})

\* C23: the template of an entity control and the controls of a repeating
\* container hold, at no depth, an entity control or a repeating container
\* over the entity of a container around them.
C23_NoNestingOverTheSameEntity ==
    ( /\ doc.decl \in {"EntityControl", "RepeatingContainerControl"}
      /\ Written(doc.decl) )
        => NoRepeat(doc.val, {})

=============================================================================
